---------------------------- MODULE Spec2Model ----------------------------
(***************************************************************************)
(* Model of the reel / race video generators:                              *)
(*   gold_vs_silver_reel.py, nifty_vs_btc_reel.py, nifty_vs_gold_reel.py   *)
(*   (create_reel_video) and graph_race_video.py (create_race_animation).  *)
(*                                                                         *)
(* One run is: configure the frame counts, accumulate the SIP valuation    *)
(* (reel drivers only), set the figure up, then FuncAnimation.save: init() *)
(* once, and for frame = 0 .. total_frames-1 animate(frame) followed by    *)
(* writer.grab_frame(); finally plt.close(fig).  (Spec)                    *)
(*                                                                         *)
(* Two functions are also modelled on their own, over every argument:      *)
(* animate(f) asked for any frame index in any order (SpecAnyOrder), and   *)
(* add_background_music on a finished video (SpecMux).                     *)
(*                                                                         *)
(* Numbers.  Prices, SIP values and percentages are exact rationals        *)
(* [n, d] in lowest terms (the program uses binary doubles; the model is   *)
(* the real-number reading of the same expressions).  The visible point    *)
(* count n_show is different: int(progress * n_points) truncates, so the   *)
(* rounding of the double division and multiplication decides the result;  *)
(* FloatDiv / FloatMul / FloatInt reproduce IEEE-754 binary64              *)
(* round-to-nearest-even on a 53-bit significand kept as five base-2^13    *)
(* digits.                                                                 *)
(*                                                                         *)
(* Indices.  i, j, frame, n_show are the program's 0-based values;         *)
(* sequences are 1-based, so df[...].iloc[i] is written price[i + 1].      *)
(***************************************************************************)
EXTENDS Integers, Sequences, FiniteSets, TLC

(***************************************************************************)
(* Bounds of the exhaustively enumerated inputs.                           *)
(***************************************************************************)
MaxLen == 2
MaxPoints == 8
MaxFps == 2
MaxDur == 3

PriceSet == {2, 3}

\* prices no market quotes, which the scripts accept like any other number
NonPositive == {-2}

(***************************************************************************)
(* Program constants.                                                      *)
(***************************************************************************)
pause_seconds == 3
MONTHLY_SIP == 100

Reels == {"gold_vs_silver", "nifty_vs_btc", "nifty_vs_gold"}
Drivers == Reels \cup {"graph_race"}
Assets == {1, 2}

(***************************************************************************)
(* Exact rationals.                                                        *)
(***************************************************************************)
Abs(x) == IF x < 0 THEN -x ELSE x

RECURSIVE GCD(_, _)
GCD(a, b) == IF b = 0 THEN a ELSE GCD(b, a % b)

Rat(n, d) ==
    LET g == GCD(Abs(n), d) IN [n |-> n \div g, d |-> d \div g]

RInt(k) == [n |-> k, d |-> 1]
RAdd(x, y) == Rat(x.n * y.d + y.n * x.d, x.d * y.d)
RSub(x, y) == Rat(x.n * y.d - y.n * x.d, x.d * y.d)
RMul(x, y) ==
    LET g1 == GCD(Abs(x.n), y.d)
        g2 == GCD(Abs(y.n), x.d)
    IN [n |-> (x.n \div g1) * (y.n \div g2), d |-> (x.d \div g2) * (y.d \div g1)]
RDiv(x, y) == RMul(x, IF y.n < 0 THEN [n |-> -y.d, d |-> -y.n] ELSE [n |-> y.d, d |-> y.n])
RLt(x, y) == x.n * y.d < y.n * x.d
RLe(x, y) == x.n * y.d <= y.n * x.d

(***************************************************************************)
(* IEEE-754 binary64 for progress = (effective_frame + 1) / animation_frames*)
(* and progress * n_points.  A double is [m, e]: value = m * 2^-(52 + e),  *)
(* m a sequence of five base-2^13 digits, most significant first.          *)
(***************************************************************************)
Radix == 2^13

RECURSIVE Pow2(_)
Pow2(k) == IF k = 0 THEN 1 ELSE 2 * Pow2(k - 1)

RECURSIVE BitLen(_)
BitLen(x) == IF x = 0 THEN 0 ELSE 1 + BitLen(x \div 2)

RECURSIVE BinExp(_, _)
BinExp(a, b) == IF a >= b THEN 0 ELSE 1 + BinExp(2 * a, b)

RECURSIVE CarryFrom(_, _, _, _)
CarryFrom(ds, k, c, acc) ==
    IF k = 1 THEN <<ds[1] + c>> \o acc
    ELSE CarryFrom(ds, k - 1, (ds[k] + c) \div Radix, <<(ds[k] + c) % Radix>> \o acc)

Carry(ds) == CarryFrom(ds, Len(ds), 0, <<>>)

RECURSIVE LongDiv(_, _, _, _)
LongDiv(r, b, k, acc) ==
    IF k = 0 THEN [digits |-> acc, rem |-> r]
    ELSE LongDiv((r * Radix) % b, b, k - 1, Append(acc, (r * Radix) \div b))

\* a / b for integers 0 <= a, 0 < b, rounded to nearest, ties to even (for
\* a >= 2 * b the leading digit carries the excess until the next Carry)
FloatDiv(a, b) ==
    IF a = 0 THEN [m |-> <<0, 0, 0, 0, 0>>, e |-> 0]
    ELSE LET e == BinExp(a, b)
             q == LongDiv(a * Pow2(e) - b, b, 4, <<1>>)
             up == \/ 2 * q.rem > b
                   \/ 2 * q.rem = b /\ q.digits[5] % 2 = 1
         IN [m |-> IF up THEN Carry([q.digits EXCEPT ![5] = @ + 1]) ELSE q.digits,
             e |-> e]

\* x * n for a double x and an integer 0 <= n < 2^13, rounded to 53 bits
FloatMul(x, n) ==
    LET p == Carry([k \in 1..5 |-> x.m[k] * n])
        drop == BitLen(p[1]) - 1
        low == p[5] % Pow2(drop)
        half == Pow2(drop) \div 2
        odd == IF drop < 13 THEN (p[5] \div Pow2(drop)) % 2 = 1 ELSE p[4] % 2 = 1
        up == low > half \/ (low = half /\ odd)
    IN [m |-> IF drop <= 0 THEN p
              ELSE Carry([p EXCEPT ![5] = @ - low + (IF up THEN Pow2(drop) ELSE 0)]),
        e |-> x.e]

\* int(x): truncation of a non-negative double
FloatInt(x) == x.m[1] \div Pow2(x.e)

Max(a, b) == IF a >= b THEN a ELSE b
Min(a, b) == IF a <= b THEN a ELSE b


(***************************************************************************)
(* Decimal formatting: f'{x:.<dec>f}' keeps the sign and the digits of     *)
(* |x| * 10^dec rounded half-to-even.                                      *)
(***************************************************************************)
RoundHalfEven(x) ==
    LET q == x.n \div x.d
        r == x.n % x.d
    IN IF 2 * r > x.d THEN q + 1
       ELSE IF 2 * r = x.d THEN q + (q % 2)
       ELSE q

Pow10(dec) == IF dec = 0 THEN 1 ELSE IF dec = 1 THEN 10 ELSE 100

RAbs(x) == [n |-> Abs(x.n), d |-> x.d]

\* f'{sym}{v/unit_size:.<dec>f}{unit}'
Money(sym, v, unit_size, dec, unit) ==
    [sym |-> sym, neg |-> v.n < 0,
     digits |-> RoundHalfEven(RMul(RDiv(RAbs(v), RInt(unit_size)), RInt(Pow10(dec)))),
     dec |-> dec, unit |-> unit]

\* the literal 'Rs.0' / '$0' written by init()
ZeroText(sym) == [sym |-> sym, neg |-> FALSE, digits |-> 0, dec |-> 0, unit |-> ""]

\* round(x) of a non-negative double to an integer, ties to even (f'{x:.0f}')
FloatRound(x) ==
    LET ip == x.m[1] \div Pow2(x.e)
        top == x.m[1] % Pow2(x.e)
        rest == x.m[3] + x.m[4] + x.m[5]
        halfTop == IF x.e = 0 THEN 0 ELSE Pow2(x.e - 1)
        halfNext == IF x.e = 0 THEN Radix \div 2 ELSE 0
        above == \/ top > halfTop
                 \/ top = halfTop /\ x.m[2] > halfNext
                 \/ top = halfTop /\ x.m[2] = halfNext /\ rest > 0
        tie == top = halfTop /\ x.m[2] = halfNext /\ rest = 0
    IN IF above THEN ip + 1 ELSE IF tie THEN ip + (ip % 2) ELSE ip

(***************************************************************************)
(* IEEE-754 binary64 for the valuation loop.  A double is [s, x]: value =   *)
(* s * 2^x, s a 53-bit integer written as five base-2^13 digits, most       *)
(* significant first (s[1] = 1), or all zero for 0.0.  Every operation is   *)
(* computed exactly on digit sequences and rounded once to nearest, ties    *)
(* to even.                                                                 *)
(***************************************************************************)
RECURSIVE BigNormFrom(_, _, _, _)
BigNormFrom(ds, k, c, acc) ==
    IF k = 0
    THEN IF c = 0 THEN acc ELSE BigNormFrom(ds, 0, c \div Radix, <<c % Radix>> \o acc)
    ELSE BigNormFrom(ds, k - 1, (ds[k] + c) \div Radix, <<(ds[k] + c) % Radix>> \o acc)

\* carries propagated, the number grown by as many digits as it needs
BigNorm(ds) == BigNormFrom(ds, Len(ds), 0, <<>>)

RECURSIVE BigStrip(_)
BigStrip(ds) ==
    IF Len(ds) > 1 /\ ds[1] = 0 THEN BigStrip(Tail(ds)) ELSE ds

BigZero(ds) == \A k \in 1..Len(ds) : ds[k] = 0

BigMulSmall(ds, n) == BigNorm([k \in 1..Len(ds) |-> ds[k] * n])

RECURSIVE BigDivFrom(_, _, _, _, _)
BigDivFrom(ds, n, k, r, acc) ==
    IF k > Len(ds) THEN [q |-> acc, rem |-> r]
    ELSE BigDivFrom(ds, n, k + 1, (r * Radix + ds[k]) % n,
                    Append(acc, (r * Radix + ds[k]) \div n))

\* quotient and remainder of a digit sequence by 0 < n < 2^18
BigDivSmall(ds, n) == BigDivFrom(ds, n, 1, 0, <<>>)

BigZeros(k) == [d \in 1..k |-> 0]

BigShl(ds, b) == BigMulSmall(ds, Pow2(b % 13)) \o BigZeros(b \div 13)

BigBitLen(ds) ==
    LET t == BigStrip(ds) IN 13 * (Len(t) - 1) + BitLen(t[1])

\* floor(ds / 2^b) and whether anything non-zero was shifted out
BigShr(ds, b) ==
    LET whole == b \div 13
        keep == IF whole >= Len(ds) THEN <<0>> ELSE SubSeq(ds, 1, Len(ds) - whole)
        gone == IF whole >= Len(ds) THEN ds ELSE SubSeq(ds, Len(ds) - whole + 1, Len(ds))
        d == BigDivSmall(keep, Pow2(b % 13))
    IN [q |-> d.q, sticky |-> d.rem # 0 \/ ~BigZero(gone)]

BigAdd(a, b) ==
    LET n == Max(Len(a), Len(b))
        pa == BigZeros(n - Len(a)) \o a
        pb == BigZeros(n - Len(b)) \o b
    IN BigNorm([k \in 1..n |-> pa[k] + pb[k]])

DblZero == [s |-> <<0, 0, 0, 0, 0>>, x |-> 0]

\* the double nearest to big * 2^x (+ a non-zero tail below it when sticky)
DblRound(big, x, sticky) ==
    LET n == BigStrip(big)
        len == BigBitLen(n)
    IN IF BigZero(n) THEN DblZero
       ELSE IF len <= 53
       THEN [s |-> BigStrip(BigShl(n, 53 - len)), x |-> x - (53 - len)]
       ELSE LET t == len - 53
                h == BigShr(n, t - 1)
                roundBit == h.q[Len(h.q)] % 2 = 1
                q == BigDivSmall(h.q, 2).q
                odd == q[Len(q)] % 2 = 1
                up == roundBit /\ (sticky \/ h.sticky \/ odd)
                r == BigStrip(IF up THEN BigNorm([q EXCEPT ![Len(q)] = @ + 1]) ELSE q)
            IN IF BigBitLen(r) = 54
               THEN [s |-> BigStrip(BigDivSmall(r, 2).q), x |-> x + t + 1]
               ELSE [s |-> r, x |-> x + t]

\* float(k) for an integer 0 <= k < 2^31
DblFromInt(k) == DblRound(BigNorm(<<k>>), 0, FALSE)

\* a * n for a double a >= 0 and an integer 0 <= n < 2^17
DblMulInt(a, n) == DblRound(BigMulSmall(a.s, n), a.x, FALSE)

\* a / n for a double a >= 0 and an integer 0 < n < 2^18
DblDivInt(a, n) ==
    LET d == BigDivSmall(BigShl(a.s, 26), n)
    IN DblRound(d.q, a.x - 26, d.rem # 0)

\* a + b for doubles a, b >= 0
DblAdd(a, b) ==
    IF BigZero(a.s) THEN b
    ELSE IF BigZero(b.s) THEN a
    ELSE LET hi == IF a.x >= b.x THEN a ELSE b
             lo == IF a.x >= b.x THEN b ELSE a
         IN IF hi.x - lo.x > 64 THEN hi
            ELSE DblRound(BigAdd(BigShl(hi.s, hi.x - lo.x), lo.s), lo.x, FALSE)

(***************************************************************************)
(* Per-driver constants.                                                   *)
(***************************************************************************)
\* monthly_sip = MONTHLY_SIP in nifty_vs_btc, the literal 10000 in the rupee reels
monthly_sip(d) == IF d = "nifty_vs_btc" THEN MONTHLY_SIP ELSE 10000

\* the rupee sign of nifty_vs_gold is written "INR"
Symbol(d) ==
    CASE d = "gold_vs_silver" -> "Rs."
      [] d = "nifty_vs_btc" -> "$"
      [] d = "nifty_vs_gold" -> "INR"
      [] OTHER -> ""

BoxName(d, a) ==
    CASE d = "gold_vs_silver" -> IF a = 1 THEN "GOLD" ELSE "SILVER"
      [] d = "nifty_vs_btc" -> IF a = 1 THEN "NIFTY" ELSE "BTC"
      [] d = "nifty_vs_gold" -> IF a = 1 THEN "NIFTY 50" ELSE "GOLD"
      [] OTHER -> IF a = 1 THEN "Series1" ELSE "Series2"

(***************************************************************************)
(* State.                                                                  *)
(***************************************************************************)
VARIABLES
    driver,            \* which script runs
    fps,               \* create_*: fps
    duration_seconds,  \* create_*: duration_seconds
    df,                \* the aligned frame: df.price[a][k], dates are 0 .. n-1
    pc,                \* position in create_reel_video / create_race_animation
    err,               \* exception that ended the run, "" while none
    animation_frames, pause_frames, total_frames, n_points,
    i, j,              \* valuation loop indices
    value,             \* gold_value, silver_value: the running sums
    sip,               \* gold_sip, silver_sip: the value lists
    total_invested,
    frame,             \* next frame of the saved frame sequence
    n_show,            \* animate's visible point count (0 before any call)
    artists,           \* the mutable drawing objects
    sink,              \* frames grabbed by the writer, in delivery order
    video_path,        \* add_background_music: video_path
    audio_path,        \* add_background_music: audio_path
    output_arg,        \* add_background_music: output_path as passed (NoPath is None)
    output_path,       \* add_background_music: output_path after the default
    ffmpeg_on_path,    \* whether an ffmpeg executable can be started
    files,             \* what each path of the file system holds
    returncode,        \* result.returncode
    result,            \* the value add_background_music returned (NoPath is None)
    mpc,               \* position in add_background_music
    fig_open,          \* the figure of plt.subplots exists and was not closed
    writer_open,       \* the movie writer is set up and not finished
    cache,             \* the CSV main writes: <<>> while no file, else <<frame>>
    fetched,           \* what the price API returns when it answers
    api_up,            \* whether the fetch of the current run succeeded
    run                \* number of the current run of main (0: main not modelled)

vars == <<driver, fps, duration_seconds, df, pc, err, animation_frames,
          pause_frames, total_frames, n_points, i, j, value, sip,
          total_invested, frame, n_show, artists, sink,
          video_path, audio_path, output_arg, output_path, ffmpeg_on_path,
          files, returncode, result, mpc, fig_open, writer_open,
          cache, fetched, api_up, run>>

data == <<cache, fetched, api_up, run>>

handles == <<fig_open, writer_open>>

mux == <<video_path, audio_path, output_arg, output_path, ffmpeg_on_path,
         files, returncode, result, mpc>>

input == <<driver, fps, duration_seconds, df>>
config == <<animation_frames, pause_frames, total_frames, n_points>>
valuation == <<i, j, value, sip, total_invested>>
render == <<frame, n_show, artists, sink>>

(***************************************************************************)
(* Inputs.  Every frame of at most MaxLen periods over PriceSet, longer    *)
(* frames of a zigzag and a flat asset up to MaxPoints periods, frames with *)
(* a non-positive price in the first asset, a frame whose first asset      *)
(* grows ten-thousandfold (values past one crore / one million), and the   *)
(* worked examples of the documentation.                                   *)
(***************************************************************************)
SeriesOf(n) == [1..n -> PriceSet]

SmallFrames ==
    UNION { { [price |-> <<p, q>>] : p \in SeriesOf(n), q \in SeriesOf(n) } : n \in 0..MaxLen }

LongFrame(n) ==
    [price |-> << [k \in 1..n |-> IF k % 2 = 1 THEN 2 ELSE 3], [k \in 1..n |-> 3] >>]

LongFrames == { LongFrame(n) : n \in (MaxLen + 1)..MaxPoints }

GrowthFrame == [price |-> << <<100, 110, 121>>, <<121, 110, 100>> >>]

BoomFrame == [price |-> << <<1, 10000>>, <<10000, 1>> >>]

RampFrame == [price |-> << <<1, 2, 3, 4, 5, 6>>, <<6, 5, 4, 3, 2, 1>> >>]

InvalidFrames ==
    UNION { { [price |-> <<p, [k \in 1..n |-> 3]>>] :
                p \in { s \in [1..n -> PriceSet \cup NonPositive] :
                          \E k \in 1..n : s[k] \in NonPositive } } : n \in 1..MaxLen }

InitInput ==
    \/ /\ driver \in Drivers
       /\ fps \in 1..MaxFps
       /\ duration_seconds \in 0..MaxDur
       /\ df \in SmallFrames \cup LongFrames \cup InvalidFrames
    \/ /\ driver \in Reels
       /\ fps = 30 /\ duration_seconds = 15
       /\ df = GrowthFrame
    \/ /\ driver \in Reels
       /\ fps = 10 /\ duration_seconds = 3
       /\ df = LongFrame(10)
    \/ /\ driver \in Drivers
       /\ fps = 1 /\ duration_seconds = 22
       /\ df = LongFrame(22)
    \/ /\ driver \in Reels
       /\ fps = 1 /\ duration_seconds = 2
       /\ df \in {BoomFrame, RampFrame}

NoText == <<>>

(***************************************************************************)
(* Paths are sequences of name pieces, so that str.replace can act on the  *)
(* piece '.mp4'; the empty sequence stands for None.                       *)
(***************************************************************************)
NoPath == <<>>

VideoPaths == { <<"reel", ".mp4">>, <<"reel", ".mov">>, <<"clips", ".mp4", "/reel", ".mp4">> }

AudioPaths == { <<"music", ".mp3">>, <<"nothing", ".mp3">> }

ExplicitOutputs == { <<"out", ".mp4">> }

\* video_path.replace('.mp4', '_with_audio.mp4'): every occurrence is replaced
Replace(path) ==
    [k \in 1..Len(path) |-> IF path[k] = ".mp4" THEN "_with_audio.mp4" ELSE path[k]]

AllPaths ==
    VideoPaths \cup AudioPaths \cup ExplicitOutputs \cup { Replace(p) : p \in VideoPaths }

NoFetch == [early |-> 0, price |-> << <<>>, <<>> >>]

DataIdle ==
    /\ cache = <<>>
    /\ fetched = NoFetch
    /\ api_up = TRUE
    /\ run = 0

MuxIdle ==
    /\ video_path = NoPath /\ audio_path = NoPath
    /\ output_arg = NoPath /\ output_path = NoPath
    /\ ffmpeg_on_path = TRUE
    /\ files = [p \in AllPaths |-> "absent"]
    /\ returncode = 0
    /\ result = NoPath
    /\ mpc = "idle"

\* the artists as the constructor calls of the figure set-up leave them
BlankArtists ==
    [line |-> << <<>>, <<>> >>,
     date_text |-> NoText,
     invested_text |-> NoText,
     label |-> << [pos |-> <<0, RInt(0)>>, text |-> NoText],
                  [pos |-> <<0, RInt(0)>>, text |-> NoText] >>,
     box |-> <<NoText, NoText>>,
     pct_text |-> <<NoText, NoText>>,
     progress_text |-> NoText]

\* the inputs of the any-order specification: short passes over the zigzag
\* frames of every length, the frames with a non-positive price and BoomFrame
InitInputAnyOrder ==
    \/ /\ driver \in Drivers
       /\ fps \in 1..MaxFps
       /\ duration_seconds \in 0..MaxDur
       /\ df \in { LongFrame(n) : n \in 0..MaxPoints } \cup InvalidFrames
    \/ /\ driver \in Reels
       /\ fps = 1 /\ duration_seconds = 2
       /\ df = BoomFrame

Constructed ==
    /\ pc = "start"
    /\ err = ""
    /\ animation_frames = 0 /\ pause_frames = 0 /\ total_frames = 0 /\ n_points = 0
    /\ i = 0 /\ j = 0
    /\ value = <<RInt(0), RInt(0)>>
    /\ sip = << <<>>, <<>> >>
    /\ total_invested = <<>>
    /\ frame = 0
    /\ n_show = 0
    /\ artists = BlankArtists
    /\ sink = <<>>
    /\ fig_open = FALSE /\ writer_open = FALSE
    /\ MuxIdle
    /\ DataIdle

Init == InitInput /\ Constructed

InitAnyOrder == InitInputAnyOrder /\ Constructed

(***************************************************************************)
(* Frame counts (create_reel_video / create_race_animation prologue).      *)
(***************************************************************************)
AnimationFrames(d, f, s) == f * s
\* the end pause left out of the frame count
PauseFramesNone(d, f) == 0

PauseFrames(d, f) == IF d \in Reels THEN f * pause_seconds ELSE 0
TotalFrames(d, f, s) == AnimationFrames(d, f, s) + PauseFrames(d, f)

Configure ==
    /\ pc = "start"
    /\ animation_frames' = AnimationFrames(driver, fps, duration_seconds)
    /\ pause_frames' = PauseFrames(driver, fps)
    /\ total_frames' = TotalFrames(driver, fps, duration_seconds)
    /\ n_points' = Len(df.price[1])
    /\ i' = 0
    /\ pc' = IF driver \in Reels THEN "outer" ELSE "figure"
    /\ UNCHANGED <<input, mux, data, handles, err, j, value, sip, total_invested, render>>

(***************************************************************************)
(* SIP valuation: for i in range(len(df)): for j in range(i + 1): ...      *)
(***************************************************************************)
\* growth ratio taken the wrong way round
GrowthInverted(a, ii, jj) == RDiv(RInt(df.price[a][jj + 1]), RInt(df.price[a][ii + 1]))

Growth(a, ii, jj) == RDiv(RInt(df.price[a][ii + 1]), RInt(df.price[a][jj + 1]))

\* the contribution amount left out of the product
ContributionUnscaled(a, ii, jj) == Growth(a, ii, jj)

Contribution(a, ii, jj) == RMul(RInt(monthly_sip(driver)), Growth(a, ii, jj))

RECURSIVE DirectDbl(_, _, _)
\* the same loop in binary64: value += monthly_sip * (price[i] / price[j]) for
\* j = 0 .. jj, each operation rounded
DirectDbl(a, ii, jj) ==
    IF jj < 0 THEN DblZero
    ELSE DblAdd(DirectDbl(a, ii, jj - 1),
                DblMulInt(DblDivInt(DblFromInt(df.price[a][ii + 1]), df.price[a][jj + 1]),
                          monthly_sip(driver)))

\* invested counted from the 0-based index
InvestedOffByOne(ii) == ii * monthly_sip(driver)

Invested(ii) == (ii + 1) * monthly_sip(driver)

\* only the newest purchase valued: range(i, i + 1)
InnerRangeNewestOnly(ii) == ii..ii

\* the purchase of the current period left out: range(i)
InnerRangeShort(ii) == 0..(ii - 1)

\* range(i + 1)
InnerRange(ii) == 0..ii

BeginOuter ==
    /\ pc = "outer"
    /\ i < Len(df.price[1])
    /\ value' = <<RInt(0), RInt(0)>>
    /\ j' = 0
    /\ pc' = "inner"
    /\ UNCHANGED <<input, mux, data, handles, config, err, i, sip, total_invested, render>>

InnerStep ==
    /\ pc = "inner"
    /\ j \in InnerRange(i)
    /\ value' = [a \in Assets |-> RAdd(value[a], Contribution(a, i, j))]
    /\ j' = j + 1
    /\ UNCHANGED <<input, mux, data, handles, config, err, pc, i, sip, total_invested, render>>

AppendSip ==
    /\ pc = "inner"
    /\ j \notin InnerRange(i)
    /\ sip' = [a \in Assets |-> Append(sip[a], value[a])]
    /\ total_invested' = Append(total_invested, Invested(i))
    /\ i' = i + 1
    /\ pc' = "outer"
    /\ UNCHANGED <<input, mux, data, handles, config, err, j, value, render>>

EndOuter ==
    /\ pc = "outer"
    /\ i >= Len(df.price[1])
    /\ pc' = "figure"
    /\ UNCHANGED <<input, mux, data, handles, config, err, valuation, render>>

(***************************************************************************)
(* Figure set-up: plt.subplots creates the figure; the axis limits and the *)
(* subtitle read the first row, so an empty frame ends the run with an     *)
(* exception before any drawing.                                           *)
(***************************************************************************)
SetupFigure ==
    /\ pc = "figure"
    /\ fig_open' = TRUE
    /\ UNCHANGED writer_open
    /\ IF n_points = 0
       THEN /\ pc' = "error"
            /\ err' = "ValueError"
            /\ UNCHANGED artists
       ELSE /\ pc' = "init"
            /\ artists' = BlankArtists
            /\ UNCHANGED err
    /\ UNCHANGED <<input, mux, data, config, valuation, frame, n_show, sink>>

(***************************************************************************)
(* init(): the init_func FuncAnimation.save calls once before the frames,  *)
(* inside writer.saving(...), which has set the writer up.                 *)
(***************************************************************************)
ZeroPct == [sign |-> "", digits |-> 0]

InitArtists(art) ==
    IF driver \in Reels
    THEN [art EXCEPT
            !.line = << <<>>, <<>> >>,
            !.date_text = NoText,
            !.invested_text = NoText,
            !.label = [a \in Assets |-> [art.label[a] EXCEPT !.text = NoText]],
            !.box = [a \in Assets |-> <<BoxName(driver, a), ZeroText(Symbol(driver))>>],
            !.pct_text = IF driver = "nifty_vs_gold" THEN art.pct_text
                         ELSE [a \in Assets |-> <<ZeroPct>>]]
    ELSE [art EXCEPT
            !.line = << <<>>, <<>> >>,
            !.label = [a \in Assets |-> [art.label[a] EXCEPT !.text = NoText]],
            !.progress_text = NoText]

init ==
    /\ pc = "init"
    /\ artists' = InitArtists(artists)
    /\ frame' = 0
    /\ pc' = IF 0 < total_frames THEN "draw" ELSE "close"
    /\ writer_open' = TRUE
    /\ UNCHANGED <<input, mux, data, fig_open, config, err, valuation, n_show, sink>>

(***************************************************************************)
(* animate(frame).                                                         *)
(***************************************************************************)
\* the animation wrapping round instead of holding its last frame
EffectiveFrameLooping(f) ==
    IF driver \in Reels THEN f % animation_frames ELSE f

\* effective_frame = min(frame, animation_frames - 1); the race driver has no clamp
EffectiveFrame(f) ==
    IF driver \in Reels THEN Min(f, animation_frames - 1) ELSE f

\* progress without the + 1
ProgressFromZero(f) == FloatDiv(Abs(EffectiveFrame(f)), animation_frames)

\* progress = (effective_frame + 1) / animation_frames: the magnitude, and the
\* sign (negative only for a frame below -1)
Progress(f) == FloatDiv(Abs(EffectiveFrame(f) + 1), animation_frames)

ProgressSign(f) == IF EffectiveFrame(f) + 1 < 0 THEN -1 ELSE 1

\* n_show without the max(1, ...)
NShowUnclamped(f) == ProgressSign(f) * FloatInt(FloatMul(Progress(f), n_points))

\* n_show = max(1, int(progress * n_points)); int() truncates towards zero
NShow(f) == Max(1, ProgressSign(f) * FloatInt(FloatMul(Progress(f), n_points)))

\* the plotted columns: the SIP values in the reels, the raw columns in the race
Column(a) ==
    IF driver \in Reels THEN sip[a]
    ELSE [k \in 1..Len(df.price[a]) |-> RInt(df.price[a][k])]

\* seq[:n]
Prefix(seq, n) == SubSeq(seq, 1, Min(n, Len(seq)))

Last(seq) == seq[Len(seq)]

RGe(x, k) == RLe(RInt(k), x)

\* the y-axis tick formatter: format_lakhs(x, pos), format_usd(x, pos) in nifty_vs_btc
format_lakhs(d, x) ==
    IF x = RInt(0) THEN ZeroText(Symbol(d))
    ELSE IF d = "nifty_vs_btc"
    THEN IF RGe(x, 1000000) THEN Money(Symbol(d), x, 1000000, 1, "M")
         ELSE IF RGe(x, 1000) THEN Money(Symbol(d), x, 1000, 1, "K")
         ELSE Money(Symbol(d), x, 1, 0, "")
    ELSE IF RGe(x, 10000000) THEN Money(Symbol(d), x, 10000000, 1, "Cr")
         ELSE IF RGe(x, 100000) THEN Money(Symbol(d), x, 100000, 1, "L")
         ELSE Money(Symbol(d), x, 1000, 0, "K")

\* one decimal kept in the largest unit as well
fmt_val_one_decimal(d, v) ==
    IF d = "nifty_vs_btc"
    THEN IF RGe(v, 1000000) THEN Money(Symbol(d), v, 1000000, 1, "M")
         ELSE IF RGe(v, 1000) THEN Money(Symbol(d), v, 1000, 1, "K")
         ELSE Money(Symbol(d), v, 1, 0, "")
    ELSE IF RGe(v, 10000000) THEN Money(Symbol(d), v, 10000000, 1, "Cr")
         ELSE Money(Symbol(d), v, 100000, 1, "L")

\* fmt_val(v) of each reel
fmt_val(d, v) ==
    IF d = "nifty_vs_btc"
    THEN IF RGe(v, 1000000) THEN Money(Symbol(d), v, 1000000, 2, "M")
         ELSE IF RGe(v, 1000) THEN Money(Symbol(d), v, 1000, 1, "K")
         ELSE Money(Symbol(d), v, 1, 0, "")
    ELSE IF RGe(v, 10000000) THEN Money(Symbol(d), v, 10000000, 2, "Cr")
         ELSE Money(Symbol(d), v, 100000, 1, "L")

\* the text of the label at the line end
LabelText(d, a, v) ==
    CASE d = "nifty_vs_gold" -> <<Money(Symbol(d), v, 100000, 1, "L")>>
      [] d = "graph_race" -> <<BoxName(d, a), Money("", v, 1, 1, "")>>
      [] OTHER -> <<fmt_val(d, v)>>

\* f'{((end - invested) / invested) * 100:+.0f}%'
PctText(v, inv) ==
    LET pct == RMul(RDiv(RSub(v, RInt(inv)), RInt(inv)), RInt(100))
    IN [sign |-> IF pct.n < 0 THEN "-" ELSE "+", digits |-> RoundHalfEven(RAbs(pct))]

\* f'{progress*100:.0f}%'
ProgressText(f) == <<ProgressSign(f) * FloatRound(FloatMul(Progress(f), 100))>>

Shown(a, ns) == Prefix(Column(a), ns)

\* the final amount invested shown throughout
InvestedShownFinal(ns) == total_invested[Len(total_invested)]

\* invested = invested_series.iloc[n_show - 1]
InvestedShown(ns) == total_invested[ns]

\* the newest point added to the path already drawn
SetDataAppending(old, a, ns) ==
    IF Shown(a, ns) = <<>> THEN old ELSE Append(old, Last(Shown(a, ns)))

\* line.set_data(x_show, y_show): the visible slice replaces the drawn path
SetData(old, a, ns) == Shown(a, ns)

AnimateArtists(art, f, ns) ==
    LET end(a) == Last(Shown(a, ns))
        lines == [a \in Assets |-> SetData(art.line[a], a, ns)]
        \* the race driver skips the labels of an empty slice
        labels == IF ns = 0 THEN art.label
                  ELSE [a \in Assets |->
                          [pos |-> <<Len(Shown(a, ns)) - 1, end(a)>>,
                           text |-> LabelText(driver, a, end(a))]]
    IN CASE driver = "graph_race" ->
              [art EXCEPT !.line = lines, !.label = labels,
                          !.progress_text = ProgressText(f)]
         [] driver = "nifty_vs_gold" ->
              [art EXCEPT !.line = lines, !.label = labels,
                          !.date_text = <<ns - 1>>,
                          !.box = [a \in Assets |->
                                     <<BoxName(driver, a), fmt_val(driver, end(a))>>]]
         [] OTHER ->
              [art EXCEPT !.line = lines, !.label = labels,
                          !.date_text = <<ns - 1>>,
                          !.invested_text = <<fmt_val(driver, RInt(InvestedShown(ns)))>>,
                          !.box = [a \in Assets |->
                                     <<BoxName(driver, a), fmt_val(driver, end(a))>>],
                          !.pct_text = [a \in Assets |->
                                     <<PctText(end(a), InvestedShown(ns))>>]]

\* the body of animate for the argument f; after is where the caller goes on
AnimateCall(f, after) ==
    /\ pc = "draw"
    /\ IF animation_frames = 0
       THEN /\ pc' = "error"
            /\ err' = "ZeroDivisionError"
            /\ UNCHANGED <<n_show, artists>>
       ELSE LET ns == NShow(f) IN
            \* x_show[-1] of an empty slice, df['date'].iloc[n_show - 1] past the end
            IF driver \in Reels /\ (ns < 1 \/ ns > n_points)
            THEN /\ pc' = "error"
                 /\ err' = "IndexError"
                 /\ n_show' = ns
                 /\ UNCHANGED artists
            ELSE /\ pc' = after
                 /\ n_show' = ns
                 /\ artists' = AnimateArtists(artists, f, ns)
                 /\ UNCHANGED err

\* writer.saving(...) is a context manager: an exception raised inside
\* anim.save finishes the writer on its way out
WriterAfter(open, raised) == IF raised THEN FALSE ELSE open

\* animate(frame) as FuncAnimation.save calls it
animate ==
    /\ AnimateCall(frame, "grab")
    /\ writer_open' = WriterAfter(writer_open, pc' = "error")
    /\ UNCHANGED <<input, mux, data, fig_open, config, valuation, frame, sink>>

(***************************************************************************)
(* FuncAnimation.save: writer.grab_frame() after each drawn frame, then    *)
(* the next frame of range(total_frames); plt.close(fig) after the loop.   *)
(***************************************************************************)
\* every other frame dropped
NextFrameSkipping(f) == f + 2

NextFrame(f) == f + 1

\* writer.grab_frame(): the frame reaches the encoder, or the encoder raises
\* (its pipe broke, the disk is full) and the exception leaves anim.save
grab_frame ==
    /\ pc = "grab"
    /\ \/ /\ sink' = Append(sink, [frame |-> frame, n_show |-> n_show, artists |-> artists])
          /\ frame' = NextFrame(frame)
          /\ pc' = IF NextFrame(frame) < total_frames THEN "draw" ELSE "close"
          /\ writer_open' = WriterAfter(writer_open, FALSE)
          /\ UNCHANGED err
       \/ /\ pc' = "error"
          /\ err' = "EncoderError"
          /\ writer_open' = WriterAfter(writer_open, TRUE)
          /\ UNCHANGED <<frame, sink>>
    /\ UNCHANGED <<input, mux, data, fig_open, config, valuation, n_show, artists>>

\* anim.save returns (the writer is finished), then plt.close(fig)
close ==
    /\ pc = "close"
    /\ pc' = "done"
    /\ writer_open' = FALSE
    /\ fig_open' = FALSE
    /\ UNCHANGED <<input, mux, data, config, err, valuation, render>>

Next ==
    \/ Configure
    \/ BeginOuter
    \/ InnerStep
    \/ AppendSip
    \/ EndOuter
    \/ SetupFigure
    \/ init
    \/ animate
    \/ grab_frame
    \/ close

Spec == Init /\ [][Next]_vars

(***************************************************************************)
(* animate as a function of its argument: after the set-up and init(), a   *)
(* caller asks for any frame index, in range or not, in any order and any  *)
(* number of times.  frame holds the last index asked for.                 *)
(***************************************************************************)
FrameRequests == (-2)..(total_frames + 1)

animate_any ==
    /\ \E f \in FrameRequests :
          /\ AnimateCall(f, "draw")
          /\ frame' = f
    /\ UNCHANGED <<input, mux, data, handles, config, valuation, sink>>

NextAnyOrder ==
    \/ Configure
    \/ BeginOuter
    \/ InnerStep
    \/ AppendSip
    \/ EndOuter
    \/ SetupFigure
    \/ init
    \/ animate_any

SpecAnyOrder == InitAnyOrder /\ [][NextAnyOrder]_vars

(***************************************************************************)
(* add_background_music(video_path, audio_path, output_path = None) as a   *)
(* function of its arguments, called on a finished video.  ffmpeg is the   *)
(* external tool: it cannot be started at all, or it exits non-zero (it    *)
(* refuses an output that is one of its inputs and fails on an input it    *)
(* cannot read, without touching the inputs), or it writes the output and  *)
(* exits 0; a failing run may leave a partial output file.                 *)
(***************************************************************************)
InitMux ==
    /\ driver \in Reels
    /\ fps = 30 /\ duration_seconds = 19
    /\ df = [price |-> << <<>>, <<>> >>]
    /\ pc = "done"
    /\ err = ""
    /\ animation_frames = 0 /\ pause_frames = 0 /\ total_frames = 0 /\ n_points = 0
    /\ i = 0 /\ j = 0
    /\ value = <<RInt(0), RInt(0)>>
    /\ sip = << <<>>, <<>> >>
    /\ total_invested = <<>>
    /\ frame = 0
    /\ n_show = 0
    /\ artists = BlankArtists
    /\ sink = <<>>
    /\ fig_open = FALSE /\ writer_open = FALSE
    /\ DataIdle
    /\ video_path \in VideoPaths
    /\ audio_path \in AudioPaths
    /\ output_arg \in {NoPath} \cup ExplicitOutputs
    /\ output_path = NoPath
    /\ ffmpeg_on_path \in BOOLEAN
    /\ files = [p \in AllPaths |->
                  IF p = video_path THEN "video"
                  ELSE IF p = <<"music", ".mp3">> THEN "audio"
                  ELSE "absent"]
    /\ returncode = 0
    /\ result = NoPath
    /\ mpc = "call"

\* if output_path is None: output_path = video_path.replace('.mp4', '_with_audio.mp4')
DefaultOutput(arg, video) == IF arg = NoPath THEN Replace(video) ELSE arg

add_background_music ==
    /\ mpc = "call"
    /\ output_path' = DefaultOutput(output_arg, video_path)
    /\ mpc' = "run"
    /\ UNCHANGED <<input, data, handles, config, valuation, render, pc, err, video_path, audio_path,
                   output_arg, ffmpeg_on_path, files, returncode, result>>

\* ffmpeg can do its work: the output is not an input and both inputs are readable
Muxable ==
    /\ output_path \notin {video_path, audio_path}
    /\ files[video_path] = "video"
    /\ files[audio_path] = "audio"

\* result = subprocess.run(cmd, capture_output=True, text=True)
run_ffmpeg ==
    /\ mpc = "run"
    /\ IF ~ffmpeg_on_path
       THEN /\ mpc' = "raised"
            /\ err' = "FileNotFoundError"
            /\ UNCHANGED <<files, returncode>>
       ELSE /\ mpc' = "check"
            /\ UNCHANGED err
            /\ \/ /\ Muxable
                  /\ returncode' = 0
                  /\ files' = [files EXCEPT ![output_path] = "muxed"]
               \/ /\ returncode' = 1
                  /\ \/ UNCHANGED files
                     \/ /\ Muxable
                        /\ files' = [files EXCEPT ![output_path] = "partial"]
    /\ UNCHANGED <<input, data, handles, config, valuation, render, pc, video_path, audio_path,
                   output_arg, output_path, ffmpeg_on_path, result>>

\* return output_path if result.returncode == 0 else None
return_result ==
    /\ mpc = "check"
    /\ result' = IF returncode = 0 THEN output_path ELSE NoPath
    /\ mpc' = "returned"
    /\ UNCHANGED <<input, data, handles, config, valuation, render, pc, err, video_path, audio_path,
                   output_arg, output_path, ffmpeg_on_path, files, returncode>>

NextMux ==
    \/ add_background_music
    \/ run_ffmpeg
    \/ return_result

SpecMux == InitMux /\ [][NextMux]_vars

(***************************************************************************)
(* main() run several times on one machine: prepare_data, df.to_csv, then  *)
(* create_reel_video with main's fixed fps and duration.  The price API    *)
(* answers or fails, independently in each run; the CSV survives from run  *)
(* to run.  fetched.early rows of the API data lie before START_DATE.      *)
(***************************************************************************)
MaxRuns == 2

FetchedSets ==
    { [early |-> 0, price |-> << <<2, 3>>, <<3, 3>> >>],
      [early |-> 1, price |-> << <<3, 2, 3>>, <<3, 3, 2>> >>] }

\* duration_seconds passed by main
MainDuration(d) == IF d = "nifty_vs_btc" THEN 30 ELSE 19

InitRuns ==
    /\ driver \in Reels
    /\ fps = 30 /\ duration_seconds = MainDuration(driver)
    /\ df = [price |-> << <<>>, <<>> >>]
    /\ pc = "prepare"
    /\ err = ""
    /\ animation_frames = 0 /\ pause_frames = 0 /\ total_frames = 0 /\ n_points = 0
    /\ i = 0 /\ j = 0
    /\ value = <<RInt(0), RInt(0)>>
    /\ sip = << <<>>, <<>> >>
    /\ total_invested = <<>>
    /\ frame = 0
    /\ n_show = 0
    /\ artists = BlankArtists
    /\ sink = <<>>
    /\ fig_open = FALSE /\ writer_open = FALSE
    /\ MuxIdle
    /\ cache = <<>>
    /\ fetched \in FetchedSets
    /\ api_up = TRUE
    /\ run = 1

\* merged[merged['date'] >= effective_start]: the rows before START_DATE go
StartFilter(rows, early) ==
    [price |-> [a \in Assets |-> SubSeq(rows.price[a], early + 1, Len(rows.price[a]))]]

\* the merged frame of a run whose fetch succeeded
Merged(d) ==
    IF d = "nifty_vs_btc" THEN StartFilter(fetched, fetched.early)
    ELSE [price |-> fetched.price]

\* only nifty_vs_btc wraps the fetch in try/except and reads the CSV back
CanFallBack(d) == d = "nifty_vs_btc"

\* prepare_data(): the dates of a cached frame are all at or after START_DATE
prepare_data ==
    /\ pc = "prepare"
    /\ \E up \in BOOLEAN :
          /\ api_up' = up
          /\ IF up
             THEN /\ df' = Merged(driver)
                  /\ pc' = "to_csv"
                  /\ UNCHANGED err
             ELSE IF CanFallBack(driver) /\ cache # <<>>
             THEN /\ df' = StartFilter(cache[1], 0)
                  /\ pc' = "to_csv"
                  /\ UNCHANGED err
             ELSE /\ pc' = "error"
                  /\ err' = "FetchError"
                  /\ UNCHANGED df
    /\ UNCHANGED <<driver, fps, duration_seconds, mux, handles, config, valuation,
                   render, cache, fetched, run>>

\* df.to_csv(..., index=False)
to_csv ==
    /\ pc = "to_csv"
    /\ cache' = <<df>>
    /\ pc' = "start"
    /\ UNCHANGED <<input, mux, handles, config, valuation, render, err,
                   fetched, api_up, run>>

\* the script is started again: a new process, the files kept
next_run ==
    /\ pc \in {"done", "error"}
    /\ run < MaxRuns
    /\ run' = run + 1
    /\ pc' = "prepare"
    /\ err' = ""
    /\ df' = [price |-> << <<>>, <<>> >>]
    /\ animation_frames' = 0 /\ pause_frames' = 0 /\ total_frames' = 0 /\ n_points' = 0
    /\ i' = 0 /\ j' = 0
    /\ value' = <<RInt(0), RInt(0)>>
    /\ sip' = << <<>>, <<>> >>
    /\ total_invested' = <<>>
    /\ frame' = 0
    /\ n_show' = 0
    /\ artists' = BlankArtists
    /\ sink' = <<>>
    /\ fig_open' = FALSE /\ writer_open' = FALSE
    /\ api_up' = TRUE
    /\ UNCHANGED <<driver, fps, duration_seconds, mux, cache, fetched>>

NextRuns ==
    \/ prepare_data
    \/ to_csv
    \/ Configure
    \/ BeginOuter
    \/ InnerStep
    \/ AppendSip
    \/ EndOuter
    \/ SetupFigure
    \/ init
    \/ animate
    \/ grab_frame
    \/ close
    \/ next_run

SpecRuns == InitRuns /\ [][NextRuns]_vars

(***************************************************************************)
(* Properties.                                                             *)
(***************************************************************************)
Valued == driver \in Reels /\ pc \notin {"start", "outer", "inner"}

RECURSIVE SumOver(_, _, _)
\* sum over j = 0 .. jj of C * price[ii] / price[j], as one fraction per term
SumOver(a, ii, jj) ==
    IF jj < 0 THEN RInt(0)
    ELSE RAdd(SumOver(a, ii, jj - 1),
              RDiv(RInt(monthly_sip(driver) * df.price[a][ii + 1]),
                   RInt(df.price[a][jj + 1])))

\* C1: every SIP value appended for an asset at index i equals the sum over
\* j = 0..i of C * price[i] / price[j], and once the valuation is complete there is
\* one value per period; prices [100, 110, 121] with C = 10000 give value[2] = 33100.
C1_SipValueIsDirectSum ==
    /\ driver \in Reels =>
         \A a \in Assets : \A k \in 1..Len(sip[a]) : sip[a][k] = SumOver(a, k - 1, k - 1)
    /\ Valued => \A a \in Assets : Len(sip[a]) = Len(df.price[a])
    /\ (Valued /\ df = GrowthFrame /\ monthly_sip(driver) = 10000) => sip[1][3] = RInt(33100)

C1_Witness ==
    /\ Valued /\ pc = "figure"
    /\ driver = "gold_vs_silver" /\ df = GrowthFrame
    /\ sip[1][3] = RInt(33100)

\* C2: invested[i] = (i + 1) * C at every index, whatever the prices: the single
\* invested list has one entry per period and its last entry is n * C.
C2_InvestedIsLinear ==
    /\ \A k \in 1..Len(total_invested) : total_invested[k] = k * monthly_sip(driver)
    /\ \A a \in Assets : Len(total_invested) = Len(sip[a])
    /\ Valued =>
         /\ Len(total_invested) = Len(df.price[1])
         /\ Len(df.price[1]) >= 1 =>
              total_invested[Len(df.price[1])] = Len(df.price[1]) * monthly_sip(driver)

C2_Witness ==
    /\ Valued /\ Len(total_invested) = 3
    /\ driver = "nifty_vs_btc"
    /\ total_invested = <<100, 200, 300>>
    /\ df.price[1] # df.price[2]

\* C3: in the reel drivers total_frames = fps * duration_seconds + fps * 3
\* = animation_frames + pause_frames, it is > 0, that many frames are delivered
\* by a completed pass, and fps = 30, duration_seconds = 15 gives 540.
C3_TotalFrames ==
    (driver \in Reels /\ pc # "start") =>
        /\ total_frames = fps * duration_seconds + fps * 3
        /\ total_frames = animation_frames + pause_frames
        /\ pause_frames = fps * 3
        /\ total_frames > 0
        /\ (fps = 30 /\ duration_seconds = 15) => total_frames = 540
        /\ pc = "done" => Len(sink) = total_frames

C3_Witness ==
    /\ driver \in Reels /\ pc = "done"
    /\ fps = 30 /\ duration_seconds = 15
    /\ total_frames = 540 /\ Len(sink) = 540

\* C4: every delivered frame with animation_frames <= frame_index (hold phase)
\* shows the state of frame animation_frames - 1: same n_show, paths, date label,
\* value labels, invested label and percent labels; with n_points = 10 and
\* animation_frames = 30, frames 29 and 59 both have n_show = 10.
C4_HoldFreezes ==
    /\ \A k \in 1..Len(sink) :
         (driver \in Reels /\ sink[k].frame >= animation_frames) =>
            /\ animation_frames \in 1..Len(sink)
            /\ sink[animation_frames].frame = animation_frames - 1
            /\ sink[k].n_show = sink[animation_frames].n_show
            /\ sink[k].artists = sink[animation_frames].artists
    /\ (driver \in Reels /\ n_points = 10 /\ animation_frames = 30 /\ pc = "done") =>
            /\ sink[30].frame = 29 /\ sink[30].n_show = 10
            /\ sink[60].frame = 59 /\ sink[60].n_show = 10
            /\ sink[60].artists = sink[30].artists

C4_Witness ==
    /\ driver = "gold_vs_silver" /\ n_points = 10 /\ animation_frames = 30
    /\ Len(sink) = 60
    /\ sink[60].frame = 59 /\ sink[60].n_show = 10
    /\ sink[29].n_show < 10
    /\ sink[60].artists = sink[30].artists

\* C5: with n_points >= 1 and animation_frames >= 1 every computed frame has
\* 1 <= n_show <= n_points (reels and race): at least one point is on each path
\* from frame 0 on and no read past the end of the series ends the run.
C5_NShowInRange ==
    (n_points >= 1 /\ animation_frames >= 1) =>
        /\ err # "IndexError"
        /\ \A k \in 1..Len(sink) :
             /\ sink[k].n_show \in 1..n_points
             /\ \A a \in Assets : Len(sink[k].artists.line[a]) = sink[k].n_show
        /\ pc = "grab" =>
             /\ n_show \in 1..n_points
             /\ \A a \in Assets : Len(artists.line[a]) = n_show

C5_Witness ==
    /\ pc = "grab" /\ frame = 0
    /\ driver = "graph_race"
    /\ n_points < animation_frames
    /\ n_show = 1 /\ Len(artists.line[1]) = 1

\* effective_frame == animation_frames - 1, read off a delivered frame index
AtLastData(k) == sink[k].frame >= animation_frames - 1

\* C6 as stated: for n_points >= 1 and animation_frames >= 1, n_show = n_points
\* exactly when effective_frame = animation_frames - 1.
C6_FullExactlyAtLastFrame ==
    (n_points >= 1 /\ animation_frames >= 1) =>
        \A k \in 1..Len(sink) : (sink[k].n_show = n_points) <=> AtLastData(k)

\* C6 amended: for n_points >= 2 and animation_frames >= 1, n_show = n_points
\* exactly when effective_frame = animation_frames - 1 (the last animating frame
\* and the hold); a one-point series is fully shown at every frame.
C6_FullExactlyAtLastFrameFromTwoPoints ==
    /\ (n_points >= 2 /\ animation_frames >= 1) =>
          \A k \in 1..Len(sink) : (sink[k].n_show = n_points) <=> AtLastData(k)
    /\ (n_points = 1 /\ animation_frames >= 1) =>
          \A k \in 1..Len(sink) : sink[k].n_show = n_points

C6_Witness ==
    /\ driver = "nifty_vs_gold" /\ pc = "done"
    /\ n_points = 3 /\ animation_frames = 2
    /\ sink[1].n_show = 1
    /\ sink[2].n_show = 3
    /\ sink[Len(sink)].n_show = 3 /\ sink[Len(sink)].frame > 2

\* C7 as stated: over consecutive animating frames n_show is strictly increasing,
\* and it reaches n_points at the last animating frame.
C7_StrictlyIncreasing ==
    (n_points >= 1 /\ animation_frames >= 1) =>
        /\ \A k \in 1..(Len(sink) - 1) :
             sink[k + 1].frame < animation_frames => sink[k + 1].n_show > sink[k].n_show
        /\ \A k \in 1..Len(sink) :
             sink[k].frame = animation_frames - 1 => sink[k].n_show = n_points

\* C7 amended: over consecutive animating frames n_show never decreases
\* (n_show(f+1) >= n_show(f)), and it reaches n_points at the last animating frame.
C7_NonDecreasingReachesAll ==
    (n_points >= 1 /\ animation_frames >= 1) =>
        /\ \A k \in 1..(Len(sink) - 1) :
             sink[k + 1].frame < animation_frames => sink[k + 1].n_show >= sink[k].n_show
        /\ \A k \in 1..Len(sink) :
             sink[k].frame = animation_frames - 1 => sink[k].n_show = n_points

C7_Witness ==
    /\ driver = "nifty_vs_btc"
    /\ n_points = 2 /\ animation_frames = 6
    /\ Len(sink) = 6
    /\ sink[1].n_show = 1 /\ sink[2].n_show = 1
    /\ sink[6].frame = 5 /\ sink[6].n_show = 2

\* C8: along the delivered frames n_show never decreases from one frame to the
\* next, and between two consecutive hold frames it does not change.
C8_MonotoneThenConstant ==
    \A k \in 1..(Len(sink) - 1) :
        /\ sink[k].n_show <= sink[k + 1].n_show
        /\ (driver \in Reels /\ sink[k].frame >= animation_frames) =>
              sink[k + 1].n_show = sink[k].n_show

C8_Witness ==
    /\ driver = "gold_vs_silver" /\ pc = "done"
    /\ animation_frames = 4 /\ n_points = 8
    /\ sink[1].n_show = 2 /\ sink[4].n_show = 8
    /\ sink[5].n_show = 8 /\ sink[Len(sink)].n_show = 8

\* C9: frames reach the sink strictly in order: the k-th delivered frame is frame
\* k - 1, a frame is drawn before it is grabbed and grabbed before the next is
\* drawn, and the pass completes only when exactly total_frames frames were delivered.
C9_SequentialDelivery ==
    /\ \A k \in 1..Len(sink) : sink[k].frame = k - 1
    /\ pc \in {"draw", "grab"} => Len(sink) = frame /\ frame < total_frames
    /\ pc = "grab" => n_show = NShow(frame)
    /\ pc \in {"close", "done"} => Len(sink) = Max(total_frames, 0)
    /\ pc \in {"start", "outer", "inner", "figure", "init"} => sink = <<>>

C9_Witness ==
    /\ pc = "done" /\ driver = "graph_race"
    /\ total_frames = 6 /\ Len(sink) = 6
    /\ sink[6].frame = 5
    /\ n_points = 3

Holding(k) == sink[k].frame >= animation_frames

\* C10: in a reel pass the delivered frames are a run of animating frames
\* (frame_index < animation_frames) followed by a run of holding frames
\* (frame_index >= animation_frames): a holding frame is never followed by an
\* animating one, every holding frame shows the final state, and a completed pass
\* has animation_frames animating frames, one entry into the hold and
\* pause_frames holding frames, the last frame among them.
C10_TwoPhasesNoReturn ==
    driver \in Reels =>
        /\ \A k \in 1..(Len(sink) - 1) :
             Holding(k) =>
                /\ Holding(k + 1)
                /\ sink[k + 1].artists = sink[k].artists
        /\ \A k \in 1..Len(sink) :
             Holding(k) => sink[k].n_show = n_points
        /\ pc \in {"close", "done"} =>
             /\ Cardinality({k \in 1..Len(sink) : ~Holding(k)}) = animation_frames
             /\ Cardinality({k \in 1..Len(sink) : Holding(k)}) = pause_frames
             /\ Cardinality({k \in 1..(Len(sink) - 1) : ~Holding(k) /\ Holding(k + 1)}) = 1
             /\ Holding(Len(sink))

C10_Witness ==
    /\ driver = "nifty_vs_gold" /\ pc = "done"
    /\ animation_frames = 3 /\ pause_frames = 3
    /\ ~Holding(3) /\ Holding(4) /\ Holding(6)
    /\ sink[3].n_show = n_points /\ sink[2].n_show < n_points

\* some animate call has returned in the any-order specification
Answered == pc = "draw" /\ n_show # 0

\* C11: animate is idempotent and history-independent: whatever frames were
\* asked for before (or only init), after animate(f) returns the displayed state
\* is the one animate(f) produces right after init on freshly constructed artists,
\* and calling animate(f) again leaves it unchanged.
C11_AnimateHistoryIndependent ==
    Answered =>
        /\ n_show = NShow(frame)
        /\ artists = AnimateArtists(InitArtists(BlankArtists), frame, NShow(frame))
        /\ artists = AnimateArtists(BlankArtists, frame, NShow(frame))
        /\ AnimateArtists(artists, frame, NShow(frame)) = artists

C11_Witness ==
    /\ Answered
    /\ driver = "gold_vs_silver" /\ n_points = 8 /\ animation_frames = 4
    /\ frame = 1 /\ n_show = 4
    /\ Len(artists.line[1]) = 4 /\ artists.date_text = <<3>>
    /\ artists.label[1].pos[1] = 3

Half == [n |-> 1, d |-> 2]

UnitSize(u) ==
    CASE u = "Cr" -> 10000000
      [] u = "L" -> 100000
      [] u = "M" -> 1000000
      [] u = "K" -> 1000
      [] OTHER -> 1

\* the money text t shows the amount v: its digits are v in t's unit, to t's
\* number of decimals, within half a unit of the last place
Renders(t, v) ==
    /\ t.neg = (v.n < 0)
    /\ RLe(RAbs(RSub(RMul(RDiv(RAbs(v), RInt(UnitSize(t.unit))), RInt(Pow10(t.dec))),
                     RInt(t.digits))), Half)

\* the percent text p shows (v - inv) / inv * 100 to the nearest integer
RendersPct(p, v, inv) ==
    LET pct == RMul(RInt(100), RDiv(RSub(v, RInt(inv)), RInt(inv)))
        shown == IF p.sign = "-" THEN -p.digits ELSE p.digits
    IN /\ RLe(RAbs(RSub(pct, RInt(shown))), Half)
       /\ p.sign = (IF pct.n < 0 THEN "-" ELSE "+")

\* every element of the drawing art is the one of period ns - 1 (0-based)
Synchronised(art, ns) ==
    /\ ns \in 1..n_points
    /\ art.date_text = <<ns - 1>>
    /\ \A a \in Assets :
          /\ art.line[a] = SubSeq(sip[a], 1, ns)
          /\ art.label[a].pos = <<ns - 1, sip[a][ns]>>
          /\ Len(art.label[a].text) = 1
          /\ Renders(art.label[a].text[1], sip[a][ns])
          /\ art.box[a][1] = BoxName(driver, a)
          /\ Renders(art.box[a][2], sip[a][ns])
    /\ driver # "nifty_vs_gold" =>
          /\ Len(art.invested_text) = 1
          /\ Renders(art.invested_text[1], RInt(ns * monthly_sip(driver)))
          /\ \A a \in Assets :
                /\ Len(art.pct_text[a]) = 1
                /\ RendersPct(art.pct_text[a][1], sip[a][ns], ns * monthly_sip(driver))

\* C12: in every frame of a reel all displayed elements belong to the same period
\* n_show - 1: each path is the first n_show values, the date label is period
\* n_show - 1, and the line-end labels, the boxes, the invested label and the
\* percent returns (value - invested) / invested * 100 show the amounts of that
\* period (nifty_vs_gold has no invested and percent elements).  Each frame is
\* examined when it is drawn and when it is delivered; delivered frames never
\* change afterwards.
C12_AllElementsAtSameIndex ==
    driver \in Reels =>
        /\ sink # <<>> => Synchronised(Last(sink).artists, Last(sink).n_show)
        /\ pc = "grab" => Synchronised(artists, n_show)

C12_Witness ==
    /\ driver = "gold_vs_silver" /\ df = GrowthFrame
    /\ pc = "grab" /\ n_show = 2
    /\ Len(artists.line[1]) = 2 /\ artists.date_text = <<1>>
    /\ artists.box[1][2] = [sym |-> "Rs.", neg |-> FALSE, digits |-> 2, dec |-> 1, unit |-> "L"]
    /\ artists.invested_text[1].digits = 2
    /\ artists.pct_text[1][1] = [sign |-> "+", digits |-> 5]
    /\ artists.pct_text[2][1] = [sign |-> "-", digits |-> 5]

HasNonPositivePrice ==
    \E a \in Assets : \E k \in 1..Len(df.price[a]) : df.price[a][k] <= 0

\* C13: if any asset has a price <= 0 at any index, the reel run fails with
\* InvalidPrice before any frame state is produced or handed to the encoder: the
\* run never gets past the valuation, no frame is computed and none is delivered.
C13_InvalidPriceRejected ==
    (driver \in Reels /\ HasNonPositivePrice) =>
        /\ pc \in {"start", "outer", "inner", "error"}
        /\ pc = "error" => err = "InvalidPrice"
        /\ n_show = 0
        /\ sink = <<>>

\* C14: if the aligned series is empty (n_points = 0) the run fails with
\* EmptySeries at valuation time: it ends in that error without reaching the
\* figure set-up, no frame is computed and nothing is handed to the encoder.
C14_EmptySeriesRejected ==
    Len(df.price[1]) = 0 =>
        /\ pc = "error" => err = "EmptySeries"
        /\ driver \in Reels => pc # "figure"
        /\ pc \notin {"init", "draw", "grab", "close", "done"}
        /\ n_show = 0
        /\ sink = <<>>

\* the last frame index asked of animate lies outside 0 .. total_frames - 1
AskedOutOfRange ==
    /\ pc \in {"draw", "error"}
    /\ n_points >= 1 /\ animation_frames >= 1
    /\ frame < 0 \/ frame >= total_frames

\* C15: a frame computation asked for with frame_index < 0 or
\* frame_index >= total_frames fails with FrameIndexOutOfRange and produces no
\* frame state; it is never silently clamped into range.
C15_OutOfRangeRejected ==
    AskedOutOfRange =>
        /\ pc = "error"
        /\ err = "FrameIndexOutOfRange"

ConstantPrice(a) == \A k \in 1..Len(df.price[a]) : df.price[a][k] = df.price[a][1]

PositivePrice(a) == \A k \in 1..Len(df.price[a]) : df.price[a][k] > 0

\* C16: for an asset whose (positive) price is the same in every period (so in
\* particular when every asset's is), value[i] = invested[i] at every index, and
\* every frame shows a percent return of 0 for it.
C16_ConstantPricesBreakEven ==
    driver \in Reels =>
        \A a \in Assets :
            (ConstantPrice(a) /\ PositivePrice(a)) =>
                /\ \A k \in 1..Len(sip[a]) : sip[a][k] = RInt(total_invested[k])
                /\ driver # "nifty_vs_gold" =>
                      \A k \in 1..Len(sink) :
                          sink[k].artists.pct_text[a] = <<[sign |-> "+", digits |-> 0]>>

C16_Witness ==
    /\ driver = "gold_vs_silver" /\ df = LongFrame(10) /\ pc = "done"
    /\ sip[2][10] = RInt(100000) /\ total_invested[10] = 100000
    /\ sink[60].artists.pct_text[2] = <<[sign |-> "+", digits |-> 0]>>
    /\ sink[60].artists.pct_text[1] # sink[60].artists.pct_text[2]

IncreasingPrice(a) ==
    \A k \in 1..(Len(df.price[a]) - 1) : df.price[a][k] < df.price[a][k + 1]

\* C17: for an asset whose (positive) price sequence is strictly increasing, the
\* SIP value sequence is strictly increasing as well: value[i] < value[i + 1].
C17_IncreasingPricesIncreasingValue ==
    driver \in Reels =>
        \A a \in Assets :
            (IncreasingPrice(a) /\ PositivePrice(a)) =>
                \A k \in 1..(Len(sip[a]) - 1) : RLt(sip[a][k], sip[a][k + 1])

C17_Witness ==
    /\ driver = "nifty_vs_gold" /\ df = RampFrame /\ pc = "figure"
    /\ IncreasingPrice(1) /\ Len(sip[1]) = 6
    /\ sip[1][1] = RInt(10000) /\ sip[1][2] = RInt(30000) /\ sip[1][3] = RInt(55000)
    /\ RLt(sip[1][5], sip[1][6])

\* the largest unit threshold of a reel: one million dollars, one crore rupees
LargestUnit(d) == IF d = "nifty_vs_btc" THEN 1000000 ELSE 10000000

\* the money texts of the frame just drawn, each with the amount it shows
BoxShown == { <<artists.box[a][2], sip[a][n_show]>> : a \in Assets }

LabelShown == { <<artists.label[a].text[1], sip[a][n_show]>> : a \in Assets }

InvestedLabelShown ==
    IF driver = "nifty_vs_gold" THEN {}
    ELSE { <<artists.invested_text[1], RInt(total_invested[n_show])>> }

Drawn == driver \in Reels /\ pc = "grab"

\* C18 as stated: every box, line-end label and invested label has exactly 2
\* decimals when its amount is at or above the largest unit threshold and
\* exactly 1 decimal when it is smaller.
C18_TwoDecimalsAboveOneBelow ==
    Drawn =>
        \A tv \in BoxShown \cup LabelShown \cup InvestedLabelShown :
            tv[1].dec = (IF RGe(tv[2], LargestUnit(driver)) THEN 2 ELSE 1)

\* C18 amended: fmt_val (boxes and invested label of every reel, line-end labels
\* of gold_vs_silver and nifty_vs_btc) picks the unit from the thresholds: in the
\* rupee reels crore with 2 decimals from 10^7 and lakh with 1 decimal below; in
\* nifty_vs_btc M with 2 decimals from 10^6, K with 1 decimal from 10^3 and the
\* bare amount with 0 decimals below 10^3.  The line-end labels of nifty_vs_gold
\* are always lakh with 1 decimal, whatever the amount.
C18_DecimalPolicyPerFormatter ==
    Drawn =>
        /\ \A tv \in BoxShown \cup InvestedLabelShown
                      \cup (IF driver = "nifty_vs_gold" THEN {} ELSE LabelShown) :
              /\ Renders(tv[1], tv[2])
              /\ IF driver = "nifty_vs_btc"
                 THEN <<tv[1].unit, tv[1].dec>> =
                        (IF RGe(tv[2], 1000000) THEN <<"M", 2>>
                         ELSE IF RGe(tv[2], 1000) THEN <<"K", 1>>
                         ELSE <<"", 0>>)
                 ELSE <<tv[1].unit, tv[1].dec>> =
                        (IF RGe(tv[2], 10000000) THEN <<"Cr", 2>> ELSE <<"L", 1>>)
        /\ driver = "nifty_vs_gold" =>
              \A tv \in LabelShown :
                  Renders(tv[1], tv[2]) /\ <<tv[1].unit, tv[1].dec>> = <<"L", 1>>

C18_Witness ==
    /\ Drawn /\ driver = "nifty_vs_btc" /\ df = BoomFrame /\ n_show = 2
    /\ artists.box[1][2] = [sym |-> "$", neg |-> FALSE, digits |-> 100, dec |-> 2, unit |-> "M"]
    /\ artists.box[2][2] = [sym |-> "$", neg |-> FALSE, digits |-> 100, dec |-> 0, unit |-> ""]
    /\ artists.invested_text[1].dec = 0

\* C19: an amount of zero is always rendered as the currency symbol and a bare
\* 0, without unit or decimals, by the y-axis formatter, by the initial box text
\* and by fmt_val wherever a drawn frame shows a zero amount.
C19_ZeroIsBareZero ==
    driver \in Reels =>
        /\ format_lakhs(driver, RInt(0)) = ZeroText(Symbol(driver))
        /\ (pc = "draw" /\ n_show = 0) =>
              \A a \in Assets : artists.box[a][2] = ZeroText(Symbol(driver))
        /\ Drawn =>
              \A tv \in BoxShown \cup LabelShown \cup InvestedLabelShown :
                  tv[2] = RInt(0) => tv[1] = ZeroText(Symbol(driver))

\* C20: audio muxing never damages the rendered video: add_background_music
\* only ever names an output path different from video_path, the video file
\* stays as it was whether ffmpeg succeeds or fails, and the call returns the
\* output path on success and None on failure, without raising.
C20_MuxNeverDamagesVideo ==
    /\ mpc \in {"run", "check", "returned", "raised"} => output_path # video_path
    /\ files[video_path] = "video"
    /\ mpc # "raised"
    /\ mpc = "returned" =>
          result = (IF returncode = 0 THEN output_path ELSE NoPath)

\* the render pass is over: anim.save returned and the function went on to its
\* end, or an exception left anim.save (animate or the encoder raised)
PassEnded ==
    \/ pc = "done"
    \/ pc = "error" /\ err \in {"EncoderError", "ZeroDivisionError", "IndexError"}

\* C21: whenever the render pass ends, whether every frame was saved or an
\* exception was raised part-way through, the figure and the encoder handle
\* acquired for the pass have been closed.
C21_HandlesReleasedOnExit ==
    PassEnded => (~fig_open /\ ~writer_open)

RECURSIVE Cumulative(_, _)
\* value[0] = C, value[k] = value[k-1] * price[k] / price[k-1] + C, exactly
Cumulative(a, k) ==
    IF k = 0 THEN RInt(monthly_sip(driver))
    ELSE RAdd(RDiv(RMul(Cumulative(a, k - 1), RInt(df.price[a][k + 1])),
                   RInt(df.price[a][k])),
              RInt(monthly_sip(driver)))

RECURSIVE CumulativeDbl(_, _)
\* the same recurrence in binary64, each operation rounded
CumulativeDbl(a, k) ==
    IF k = 0 THEN DblFromInt(monthly_sip(driver))
    ELSE DblAdd(DblDivInt(DblMulInt(CumulativeDbl(a, k - 1), df.price[a][k + 1]),
                          df.price[a][k]),
                DblFromInt(monthly_sip(driver)))

RECURSIVE BigLessFrom(_, _, _)
BigLessFrom(a, b, k) ==
    IF k > Len(a) THEN FALSE
    ELSE IF a[k] # b[k] THEN a[k] < b[k]
    ELSE BigLessFrom(a, b, k + 1)

\* |a - b| of two digit sequences
BigDistance(a, b) ==
    LET n == Max(Len(a), Len(b))
        pa == BigZeros(n - Len(a)) \o a
        pb == BigZeros(n - Len(b)) \o b
        hi == IF BigLessFrom(pa, pb, 1) THEN pb ELSE pa
        lo == IF BigLessFrom(pa, pb, 1) THEN pa ELSE pb
    IN BigStrip(BigNorm([k \in 1..n |-> hi[k] - lo[k]]))

\* two positive doubles differ by a relative error below 2^-30 (< 1e-9)
DblClose(a, b) ==
    LET m == Min(a.x, b.x)
    IN /\ a.x - m <= 64 /\ b.x - m <= 64
       /\ LET sa == BigShl(a.s, a.x - m)
               sb == BigShl(b.s, b.x - m)
               dist == BigDistance(sa, sb)
           IN BigZero(dist) \/ BigBitLen(dist) + 31 <= BigBitLen(sa)

\* C23 as stated: when the valuation loop has finished, for every positive price series the direct double sum the
\* code computes equals the cumulative reformulation value[0] = C,
\* value[i] = value[i-1] * price[i] / price[i-1] + C at every index, in the
\* double arithmetic both run in.
C23_DirectEqualsCumulative ==
    (driver \in Reels /\ pc = "figure") =>
        \A a \in Assets : PositivePrice(a) =>
            \A k \in 1..Len(sip[a]) : DirectDbl(a, k - 1, k - 1) = CumulativeDbl(a, k - 1)

\* C23 amended: when the valuation loop has finished, the two are equal in exact arithmetic at every index, and equal
\* at index 0 in doubles; from index 1 on the doubles may differ in their last
\* bits, staying within a relative error of 1e-9.
C23_EqualUpToRounding ==
    (driver \in Reels /\ pc = "figure") =>
        \A a \in Assets : PositivePrice(a) =>
            \A k \in 1..Len(sip[a]) :
                /\ sip[a][k] = Cumulative(a, k - 1)
                /\ DblClose(DirectDbl(a, k - 1, k - 1), CumulativeDbl(a, k - 1))
                /\ k = 1 => DirectDbl(a, 0, 0) = CumulativeDbl(a, 0)

C23_Witness ==
    /\ Valued /\ df = RampFrame
    /\ \E k \in 1..Len(sip[2]) :
          /\ sip[2][k] = Cumulative(2, k - 1)
          /\ sip[2][k].d # 1
          /\ DirectDbl(2, k - 1, k - 1) # CumulativeDbl(2, k - 1)

\* C24: with animation_frames >= n_points no data point is skipped as the current
\* point: n_show is 1 on frame 0, grows by at most 1 from one frame to the next,
\* and a completed pass has shown every value 1..n_points on an animating frame;
\* with animation_frames < n_points the last animating frame still has
\* n_show = n_points.
C24_NoPointSkipped ==
    (n_points >= 1 /\ animation_frames >= 1) =>
        /\ animation_frames >= n_points =>
              /\ \A k \in 1..Len(sink) : sink[k].frame = 0 => sink[k].n_show = 1
              /\ \A k \in 1..(Len(sink) - 1) : sink[k + 1].n_show <= sink[k].n_show + 1
              /\ pc = "done" =>
                    \A v \in 1..n_points :
                        \E k \in 1..Len(sink) :
                            sink[k].frame < animation_frames /\ sink[k].n_show = v
        /\ animation_frames < n_points =>
              \A k \in 1..Len(sink) :
                  sink[k].frame = animation_frames - 1 => sink[k].n_show = n_points

\* C25: for integer fps >= 1, duration_seconds >= 0 and n_points >= 1 the reels
\* have total_frames > 0 and animate completes without error for every frame
\* 0 .. total_frames - 1: no division by zero in progress, no read outside the
\* series, and each frame asked for is drawn.
C25_AnimateNeverFails ==
    (fps >= 1 /\ duration_seconds >= 0 /\ n_points >= 1) =>
        /\ driver \in Reels => total_frames > 0
        /\ err \notin {"ZeroDivisionError", "IndexError"}
        /\ \A k \in 1..Len(sink) : sink[k].frame = k - 1 /\ sink[k].frame < total_frames

\* C26: in every frame of every reel, the line-end label of an asset and the
\* value box of the same asset show the same formatted amount: same sign, unit,
\* number of decimals and digits.
C26_LabelMatchesBox ==
    /\ Drawn => \A a \in Assets : artists.label[a].text = <<artists.box[a][2]>>
    /\ driver \in Reels =>
          \A k \in 1..Len(sink) : \A a \in Assets :
              sink[k].artists.label[a].text = <<sink[k].artists.box[a][2]>>

HasPercent == driver \in {"gold_vs_silver", "nifty_vs_btc"}

\* C27: for an asset with a positive price series, value[0] = C = invested[0] and
\* value[i] >= C > 0 at every index; a frame with n_show = 1 shows a percent
\* return of exactly 0 for it, and every amount animate formats for it (box,
\* line-end label) and the invested amount are greater than zero.
C27_PositiveValuesZeroFirstReturn ==
    driver \in Reels =>
        /\ monthly_sip(driver) > 0
        /\ \A a \in Assets : PositivePrice(a) =>
              /\ \A k \in 1..Len(sip[a]) : RGe(sip[a][k], monthly_sip(driver))
              /\ Len(sip[a]) >= 1 =>
                    /\ sip[a][1] = RInt(monthly_sip(driver))
                    /\ sip[a][1] = RInt(total_invested[1])
              /\ (pc = "grab" /\ n_show = 1 /\ HasPercent) =>
                    artists.pct_text[a] = <<[sign |-> "+", digits |-> 0]>>
              /\ pc = "grab" =>
                    /\ artists.label[a].pos[2].n > 0
                    /\ artists.line[a][n_show].n > 0
                    /\ ~artists.label[a].text[1].neg
                    /\ ~artists.box[a][2].neg
        /\ pc = "grab" => total_invested[n_show] > 0

C27_Witness ==
    /\ driver = "nifty_vs_btc" /\ df = GrowthFrame
    /\ pc = "grab" /\ frame = 0 /\ n_show = 1
    /\ sip[2][1] = RInt(100) /\ total_invested[1] = 100
    /\ RLt(sip[2][3], RInt(total_invested[3]))
    /\ artists.pct_text[2] = <<[sign |-> "+", digits |-> 0]>>
    /\ artists.box[2][2] = [sym |-> "$", neg |-> FALSE, digits |-> 100, dec |-> 0, unit |-> ""]

\* the fetch of the current run failed, and prepare_data is over
FetchFailed == run >= 1 /\ pc # "prepare" /\ ~api_up

\* C22: once a run has cached the merged series, a later run whose fetch fails
\* still proceeds: prepare_data returns the cached series and the run renders from
\* it; only when the fetch fails and no cache exists does the run fail, and then
\* no frame of a video is produced.
C22_CacheFallback ==
    FetchFailed =>
        IF cache # <<>>
        THEN /\ err # "FetchError"
             /\ df = cache[1]
             /\ pc = "done" => Len(sink) = total_frames
        ELSE /\ pc = "error" /\ err = "FetchError"
             /\ sink = <<>>

=============================================================================
